---- MODULE Spec2Model ----
(***************************************************************************)
(* Model of the multi-role debate engine:                                  *)
(*   graph.py      the debate graph (agent_node, _generate_agent_response, *)
(*                 get_rag_context_for_agent)                              *)
(*   rag_module.py the retrieval module (result cache, role cache,         *)
(*                 provider calls)                                         *)
(*   debates.py    DebateManager, the warm-up, the generation worker       *)
(*                 thread and the playback loop of generate_response       *)
(*   tts_module.py the speech synthesis of a turn                          *)
(*                                                                         *)
(* The specifications share the actions of the worker thread:              *)
(*   Spec        the warm-up and the worker thread driving the graph, with *)
(*               retrieval; the playback loop is not scheduled             *)
(*   FairSpec    Spec with the worker thread always scheduled eventually   *)
(*   SpecPlay    the worker thread and the playback loop interleaved step  *)
(*               by step, for sessions started with retrieval switched off *)
(*   SpecFault   SpecPlay for sessions whose turns all fail, with a worker *)
(*               that may end in its except branch; FairFault adds the     *)
(*               scheduling of the two threads                             *)
(*   SpecRestart a run started again while the worker of the run before it *)
(*               is still alive                                            *)
(*   SpecClock   Spec with time passing between the steps                  *)
(*   SpecCache   retrieval calls of sessions that follow each other in     *)
(*               time                                                      *)
(*   SpecCallers retrieval calls of threads that run at the same time      *)
(*   SpecStart   the call of generate_response with any selection of roles *)
(*               and any number of rounds; SpecHistory its long debates of *)
(*               three roles                                               *)
(*   SpecTts     Spec for sessions with speech synthesis                   *)
(*   SpecRagFault  Spec for sessions whose retrieval module meets          *)
(*               exceptions in its own code                                *)
(*   SpecCancel  SpecPlay with a run that the user stops                   *)
(*   SpecModule  the retrieval module called directly, with any arguments  *)
(***************************************************************************)
EXTENDS Integers, Sequences, FiniteSets, TLC

\* Bounds of the model: the largest number of participants and of rounds.
MaxP == 3
MaxR == 2

\* The latest reading of the clock; the clock counts units of six hours.
MaxClock == 5
\* The most provider calls made for one role by the sessions that follow
\* each other.
MaxFetches == 2
\* The number of threads that call the retrieval module at the same time.
MaxCallers == 2
\* The longest selection of roles and the largest number of rounds that
\* generate_response is called with.
MaxSelected == 7
MaxRequested == 9
\* The most rounds of the debates in which the history of a turn is examined.
MaxLongRounds == 4

\* The retrieval module called directly: the most results a search hands
\* back, the largest max_sources of a call, and the number of calls.
MaxResults == 2
MaxSourcesArg == 2
MaxModuleCalls == 2

\* Program constants.
MinAgents == 3
MaxAgents == 6
MinRounds == 2
MaxRounds == 8
\* RAG_CONFIG: cache_duration_hours = 24 and agent_cache_duration_hours = 6,
\* in units of six hours.
CacheDuration == 4
AgentCacheDuration == 1

\* The keys of AVAILABLE_ROLES, in the order the sidebar offers them.
RoleCatalog ==
  <<"environmentalist", "economist", "policy_maker",
    "tech_expert", "sociologist", "ethicist">>

Roles == {RoleCatalog[i] : i \in 1..Len(RoleCatalog)}

ParticipantCounts == {p \in MinAgents..MaxP : p <= MaxAgents}

RoundCounts == MinRounds..MaxR

(***************************************************************************)
(* Retrieval contexts.  A payload is identified by the serial number of    *)
(* the provider call that produced it for the role, so that two different  *)
(* fetches never yield equal payloads.                                     *)
(***************************************************************************)
Ctx(kind, serial) == [kind |-> kind, serial |-> serial]

\* "暂无相关学术资料。": the module's marker for "no material".
NoMaterial == Ctx("no_material", 0)

\* "当前未启用学术资料检索功能。"
RagDisabled == Ctx("disabled", 0)

\* "暂未找到直接相关的最新学术研究，请基于你的专业知识发表观点。"
NotFound == Ctx("not_found", 0)

\* No context was computed in the turn (the model was not initialised).
NoContext == Ctx("unused", 0)

\* "学术资料检索遇到技术问题，请基于你的专业知识发表观点。"
SearchProblem == Ctx("search_problem", 0)

\* "学术资料处理遇到技术问题，请基于你的专业知识发表观点。"
BuildProblem == Ctx("build_problem", 0)

Payload(serial) == Ctx("payload", serial)

\* A Python dict as a function with a growing domain.
EmptyDict == [k \in {} |-> NoMaterial]

DictPut(d, key, value) ==
  [k \in (DOMAIN d) \cup {key} |-> IF k = key THEN value ELSE d[k]]

EmptyIntDict == [k \in {} |-> 0]

\* os.remove of the cache file of a key.
DictRemove(d, key) == [k \in DOMAIN d \ {key} |-> d[k]]

\* The cache files: the stored value and the 'timestamp' written with it.
ResultEntry(serial, time) == [serial |-> serial, timestamp |-> time]

AgentEntry(context, time) == [context |-> context, timestamp |-> time]

(***************************************************************************)
(* Scheduling arithmetic of the graph and of the worker.                   *)
(***************************************************************************)
\* Faulty variant: one turn too many is expected.
TotalExpectedOffByOne(rounds, agents) == rounds * Len(agents) + 1

TotalExpected(rounds, agents) == rounds * Len(agents)

RoundOfTotal(total, agents) == (total \div Len(agents)) + 1

\* Faulty variant: the scheduled speaker is taken one place too far.
ExpectedAgentSkip(total, agents) == agents[((total + 1) % Len(agents)) + 1]

ExpectedAgent(total, agents) == agents[(total % Len(agents)) + 1]

\* Faulty variant: the round is taken from the count itself.
WorkerRoundOfCount(count, agents) == (count \div Len(agents)) + 1

\* background_generation_worker: the round stored in the item of the count-th message.
WorkerRound(count, agents) == ((count - 1) \div Len(agents)) + 1

VARIABLES
  \* configuration of the session and module-level singletons
  active_agents, max_rounds, rag_enabled, deepseek, rag_module,
  \* the tts_enabled argument of generate_response, and whether the retrieval
  \* module meets exceptions in its own code (its outer except branches)
  tts_enabled, rag_faults,
  \* retrieval module: disk caches and the count of provider calls per role
  result_cache, agent_disk_cache, fetch_calls,
  \* MultiAgentDebateState
  messages, total_messages, current_round, current_agent_index,
  agent_paper_cache, first_round_rag_completed, node,
  \* worker thread
  wpc, message_count, pending,
  \* DebateManager
  message_queue, is_generating, generation_complete,
  total_expected_messages, messages_generated, is_playing,
  \* main thread: generate_response
  pc, preload_idx, displayed_messages, temp_messages, requeue_left, message_item,
  \* history: the last committed turn and the fetch made in each role's round-1 turn
  last_turn, round1_fetch,
  \* the worker thread of an earlier debate of the same browser session, and the
  \* number of items it has put on the queue since the manager was reset
  prev_wpc, prev_count, prev_total, prev_pending, stale_puts,
  \* datetime.now(), and for each role the time its context was put into
  \* agent_paper_cache
  now, stored_at,
  \* the calls of rag_module.get_rag_context_for_agent that are under way
  callers,
  \* the number of turns generated when the user stopped the script, or -1
  cancelled_at,
  \* the retrieval module called directly: the files of ./rag_cache/agent_cache
  \* and of ./rag_cache by name, and the last call with what it returned
  agent_cache_dir, cache_dir, module_call

cfgVars == <<active_agents, max_rounds, rag_enabled, deepseek, rag_module,
             tts_enabled, rag_faults>>
ragVars == <<result_cache, agent_disk_cache, fetch_calls>>
graphVars == <<messages, total_messages, current_round, current_agent_index,
               agent_paper_cache, first_round_rag_completed, node>>
workerVars == <<wpc, message_count, pending>>
managerVars == <<message_queue, is_generating, generation_complete,
                 total_expected_messages, messages_generated, is_playing>>
mainVars == <<pc, preload_idx, displayed_messages, temp_messages, requeue_left,
              message_item>>
histVars == <<last_turn, round1_fetch, stored_at>>
prevVars == <<prev_wpc, prev_count, prev_total, prev_pending, stale_puts>>

\* The state that a single run of generate_response leaves alone.
libVars == <<agent_cache_dir, cache_dir, module_call>>

sideVars == <<prevVars, now, callers, cancelled_at, libVars>>

vars == <<cfgVars, ragVars, graphVars, workerVars, managerVars, mainVars, histVars,
          sideVars>>

NoItem == [agent_key |-> "", message |-> "", round_num |-> 0,
           audio_data |-> "none", audio_duration |-> 0, generation_order |-> 0]

\* "这是辩论的开始...": the history of the first turn, and of a turn that
\* formats no history.
NoHistory == [window |-> <<>>, own |-> <<>>]

NoTurn == [order |-> 0, agent |-> "", round |-> 0,
           fetched |-> FALSE, context |-> NoContext, kind |-> "", tts |-> "",
           history |-> NoHistory]

\* The threads that call the retrieval module, and a thread that is not in a call.
Callers == 1..MaxCallers

NoCall == [pc |-> "idle", role |-> "", serial |-> 0, called |-> FALSE]

\* No call of the retrieval module has been made directly.
NoModuleCall == [seq |-> 0, op |-> "none"]

InSeq(x, seq) == \E i \in 1..Len(seq) : seq[i] = x

(***************************************************************************)
(* The state when generate_response has reset the manager, accepted the    *)
(* selection, set total_expected_messages and built the graph.  The graph  *)
(* input of generate_response has current_round = 0 and no total_messages  *)
(* (read as 0); START leads to the first participant.                      *)
(***************************************************************************)
InitSession ==
  /\ \E p \in ParticipantCounts : active_agents = SubSeq(RoleCatalog, 1, p)
  /\ max_rounds \in RoundCounts
  /\ rag_enabled \in BOOLEAN
  /\ deepseek \in BOOLEAN
  /\ rag_module \in {m \in BOOLEAN : m => deepseek}
  /\ tts_enabled \in BOOLEAN
  /\ rag_faults \in BOOLEAN
  /\ result_cache = EmptyIntDict
  /\ agent_disk_cache = EmptyDict
  /\ fetch_calls = [r \in Roles |-> 0]
  /\ messages = <<>>
  /\ total_messages = 0
  /\ current_round = 0
  /\ current_agent_index = 0
  /\ agent_paper_cache = EmptyDict
  /\ first_round_rag_completed = <<>>
  /\ node = active_agents[1]
  /\ wpc = "unstarted"
  /\ message_count = 0
  /\ pending = NoItem
  /\ message_queue = <<>>
  /\ is_generating = FALSE
  /\ generation_complete = FALSE
  /\ total_expected_messages = TotalExpected(max_rounds, active_agents)
  /\ messages_generated = 0
  /\ is_playing = FALSE
  /\ pc = "preload"
  /\ preload_idx = 1
  /\ displayed_messages = <<>>
  /\ temp_messages = <<>>
  /\ requeue_left = <<>>
  /\ message_item = NoItem
  /\ last_turn = NoTurn
  /\ round1_fetch = [r \in Roles |-> NoContext]
  /\ prev_wpc = "none"
  /\ prev_count = 0
  /\ prev_total = 0
  /\ prev_pending = NoItem
  /\ stale_puts = 0
  /\ now = 0
  /\ stored_at = [r \in Roles |-> 0]
  /\ callers = [c \in Callers |-> NoCall]
  /\ cancelled_at = -1
  /\ agent_cache_dir = EmptyDict
  /\ cache_dir = EmptyDict
  /\ module_call = NoModuleCall

\* Sessions without speech synthesis in which the retrieval module meets no
\* exception in its own code.
Init == InitSession /\ ~tts_enabled /\ ~rag_faults

(***************************************************************************)
(* DynamicRAGModule.get_rag_context_for_agent with force_refresh = True    *)
(* (both callers pass it), for a non-empty role and topic and              *)
(* max_sources >= 1.  `papers` is the provider's answer: TRUE when the     *)
(* Kimi call yields at least one paper that passes the filter, FALSE when  *)
(* it times out, fails or yields none (KimiSearcher.search returns []).    *)
(* search_academic_sources serves the query from the result cache when it  *)
(* holds results and calls the provider otherwise; it stores a non-empty   *)
(* answer in the result cache.  The context is stored in the role cache    *)
(* unless it is the "no material" marker.  A result file older than        *)
(* cache_duration_hours is removed and counts as a miss.                   *)
(* `fault` is the except branch that an exception in the module's own code *)
(* leads to: "search" when search_academic_sources raises, "build" when    *)
(* the handling of the results raises, "call" when the exception leaves    *)
(* the module and reaches the caller.                                      *)
(***************************************************************************)
RagFaults == IF rag_faults THEN {"none", "call", "search", "build"} ELSE {"none"}

\* datetime.now() - cache_time > timedelta(hours=...)
Expired(timestamp, duration) == now - timestamp > duration

RagModuleContext(agent_role, papers, fault) ==
  LET present == agent_role \in DOMAIN result_cache
      hit == present /\ ~Expired(result_cache[agent_role].timestamp, CacheDuration)
      kept == IF present /\ ~hit THEN DictRemove(result_cache, agent_role)
              ELSE result_cache
      calls == IF hit THEN fetch_calls
               ELSE [fetch_calls EXCEPT ![agent_role] = @ + 1]
      serial == IF hit THEN result_cache[agent_role].serial
                ELSE IF papers THEN calls[agent_role] ELSE 0
      results == IF ~hit /\ papers
                 THEN DictPut(kept, agent_role, ResultEntry(serial, now))
                 ELSE kept
      context == IF serial = 0 THEN NoMaterial
                 ELSE IF fault = "build" THEN BuildProblem
                 ELSE Payload(serial)
  IN  IF fault = "search"
      THEN [context |-> SearchProblem,
            result_cache |-> result_cache,
            fetch_calls |-> fetch_calls,
            agent_disk_cache |-> agent_disk_cache]
      ELSE [context |-> context,
            result_cache |-> results,
            fetch_calls |-> calls,
            agent_disk_cache |->
              IF context # NoMaterial
              THEN DictPut(agent_disk_cache, agent_role, AgentEntry(context, now))
              ELSE agent_disk_cache]

\* The test of graph.py on a fetched context: stored only when usable.
UsableContext(context) == context # NoMaterial

\* Faulty variant: the first-round branch ignores first_round_rag_completed.
FirstRoundFetchDueAnyTime(agent_key, round, completed) == round = 1

\* The guard of the first-round branch of the graph's get_rag_context_for_agent.
FirstRoundFetchDue(agent_key, round, completed) ==
  round = 1 /\ ~InSeq(agent_key, completed)

(***************************************************************************)
(* graph.py get_rag_context_for_agent(agent_key, topic, state).  The dict  *)
(* and the list read from the state are changed in place, so what it       *)
(* stores is seen by all later turns whatever update the turn returns.     *)
(***************************************************************************)
GetRagContextForAgent(agent_key, papers, fault) ==
  LET keep == [context |-> NotFound, fetched |-> FALSE, stored |-> FALSE,
               agent_paper_cache |-> agent_paper_cache,
               first_round_rag_completed |-> first_round_rag_completed,
               result_cache |-> result_cache,
               fetch_calls |-> fetch_calls,
               agent_disk_cache |-> agent_disk_cache]
  IN  IF ~rag_enabled \/ ~rag_module
      THEN [keep EXCEPT !.context = RagDisabled]
      ELSE IF FirstRoundFetchDue(agent_key, current_round, first_round_rag_completed)
      THEN IF fault = "call"
           THEN [keep EXCEPT !.context = SearchProblem, !.fetched = TRUE]
           ELSE
           LET f == RagModuleContext(agent_key, papers, fault)
               usable == UsableContext(f.context)
           IN  [context |-> IF usable THEN f.context ELSE NotFound,
                fetched |-> TRUE,
                stored |-> usable,
                agent_paper_cache |->
                  IF usable THEN DictPut(agent_paper_cache, agent_key, f.context)
                  ELSE agent_paper_cache,
                first_round_rag_completed |->
                  IF usable THEN Append(first_round_rag_completed, agent_key)
                  ELSE first_round_rag_completed,
                result_cache |-> f.result_cache,
                fetch_calls |-> f.fetch_calls,
                agent_disk_cache |-> f.agent_disk_cache]
      ELSE IF agent_key \in DOMAIN agent_paper_cache
      THEN [keep EXCEPT !.context = agent_paper_cache[agent_key]]
      ELSE keep

\* Faulty variant: the warm-up runs whether or not retrieval is switched on.
PreloadIgnoresSwitch ==
  /\ pc = "preload"
  /\ IF ~rag_module
     THEN pc' = "returned" /\ UNCHANGED <<preload_idx, ragVars>>
     ELSE IF preload_idx <= Len(active_agents)
     THEN \E papers \in BOOLEAN :
            LET f == RagModuleContext(active_agents[preload_idx], papers, "none")
            IN  /\ result_cache' = f.result_cache
                /\ fetch_calls' = f.fetch_calls
                /\ agent_disk_cache' = f.agent_disk_cache
                /\ preload_idx' = preload_idx + 1
                /\ pc' = pc
     ELSE pc' = "start" /\ UNCHANGED <<preload_idx, ragVars>>
  /\ UNCHANGED <<cfgVars, sideVars, graphVars, workerVars, managerVars, histVars,
                 displayed_messages, temp_messages, requeue_left, message_item>>

(***************************************************************************)
(* preload_rag_for_all_agents, as generate_response calls it before the    *)
(* debate: nothing when retrieval is switched off; a failure that makes    *)
(* generate_response return when the module is missing; else one retrieval *)
(* per participant, in order, whose outcome does not stop the warm-up.     *)
(***************************************************************************)
Preload ==
  /\ pc = "preload"
  /\ IF ~rag_enabled
     THEN pc' = "start" /\ UNCHANGED <<preload_idx, ragVars>>
     ELSE IF ~rag_module
     THEN pc' = "returned" /\ UNCHANGED <<preload_idx, ragVars>>
     ELSE IF preload_idx <= Len(active_agents)
     THEN \E papers \in BOOLEAN, fault \in RagFaults :
            IF fault = "call"
            THEN pc' = "returned" /\ UNCHANGED <<preload_idx, ragVars>>
            ELSE
            LET f == RagModuleContext(active_agents[preload_idx], papers, fault)
            IN  /\ result_cache' = f.result_cache
                /\ fetch_calls' = f.fetch_calls
                /\ agent_disk_cache' = f.agent_disk_cache
                /\ preload_idx' = preload_idx + 1
                /\ pc' = pc
     ELSE pc' = "start" /\ UNCHANGED <<preload_idx, ragVars>>
  /\ UNCHANGED <<cfgVars, sideVars, graphVars, workerVars, managerVars, histVars,
                 displayed_messages, temp_messages, requeue_left, message_item>>

\* generate_response: clears the displayed messages, starts the worker thread
\* and enters the playback loop.
StartThread ==
  /\ pc = "start"
  /\ displayed_messages' = <<>>
  /\ wpc' = "begin"
  /\ pc' = "check"
  /\ UNCHANGED <<cfgVars, sideVars, ragVars, graphVars, managerVars, histVars,
                 message_count, pending, preload_idx,
                 temp_messages, requeue_left, message_item>>

(***************************************************************************)
(* background_generation_worker.                                           *)
(***************************************************************************)
WorkerBegin ==
  /\ wpc = "begin"
  /\ is_generating' = TRUE
  /\ message_count' = 0
  /\ wpc' = "stream"
  /\ UNCHANGED <<cfgVars, sideVars, ragVars, graphVars, mainVars, histVars, pending,
                 message_queue, generation_complete, total_expected_messages,
                 messages_generated, is_playing>>

\* What the speech synthesis of a turn ends in: generate_tts is not called
\* ("off"), text_to_speech returns the audio and its duration, returns None
\* (no key, no text, a failed request), times out, or an exception is raised.
TtsFailures == {"no_result", "timeout", "exception"}

TtsOutcomes(enabled) == IF enabled THEN {"audio"} \cup TtsFailures ELSE {"off"}

\* Faulty variant: a failed synthesis leaves a duration behind.
TtsResultKeepsDuration(outcome) ==
  [audio_data |-> IF outcome = "audio" THEN "audio" ELSE "none",
   audio_duration |-> IF outcome = "off" THEN 0 ELSE 1]

\* audio_data and audio_duration as the worker holds them after the synthesis:
\* the result of generate_tts, or None and 0.0.
TtsResult(outcome) ==
  IF outcome = "audio"
  THEN [audio_data |-> "audio", audio_duration |-> 1]
  ELSE [audio_data |-> "none", audio_duration |-> 0]

\* Faulty variant: the item takes the count as it was before the increment.
NewMessageItemStale(agent_key, kind, count, audio) ==
  [agent_key |-> agent_key, message |-> kind,
   round_num |-> WorkerRound(count, active_agents),
   audio_data |-> audio.audio_data, audio_duration |-> audio.audio_duration,
   generation_order |-> count - 1]

\* The message item the worker builds from the update of node agent_key.
NewMessageItem(agent_key, kind, count, audio) ==
  [agent_key |-> agent_key, message |-> kind,
   round_num |-> WorkerRound(count, active_agents),
   audio_data |-> audio.audio_data, audio_duration |-> audio.audio_duration,
   generation_order |-> count]

\* Faulty variant: every turn hands over to the first participant.
NextNodeFirst(new_total) ==
  IF new_total >= TotalExpected(max_rounds, active_agents)
  THEN "END"
  ELSE active_agents[1]

\* agent_node: where the graph goes after a turn that brought the count to new_total.
NextNode(new_total) ==
  IF new_total >= TotalExpected(max_rounds, active_agents)
  THEN "END"
  ELSE ExpectedAgent(new_total, active_agents)

\* _generate_agent_response: the round written by a successful turn.
NewRound(new_total) == RoundOfTotal(new_total, active_agents)

\* Faulty variant: a successful turn counts twice.
SpeechTurnTotalTwice(total) == total + 2

\* _generate_agent_response: total_messages in the update of a successful turn.
SpeechTurnTotal(total) == total + 1

\* Faulty variant: an error turn does not advance total_messages.
ErrorTurnTotalStuck(total) == total

\* _generate_agent_response: total_messages in the update of an error turn
\* (model not initialised, or the except branch).
ErrorTurnTotal(total) == total + 1

(***************************************************************************)
(* format_agent_history(messages, active_agents, current_agent,            *)
(* current_round).  The result has two parts: the lines of the recent      *)
(* messages, each with the speaker and the round its label stands for      *)
(* ("第k轮" for an earlier round, "本轮" for current_round), and under    *)
(* "[你的历史立场]" the current agent's own messages of the rounds before  *)
(* current_round.  An entry holds the 0-based index of its message.        *)
(***************************************************************************)
Max(a, b) == IF a >= b THEN a ELSE b

Min(a, b) == IF a <= b THEN a ELSE b

\* Faulty variant: the window reaches back one round only.
HistoryStartOneRound(count, messages_per_round) ==
  Max(0, count - messages_per_round)

\* start_idx
HistoryStart(count, messages_per_round) ==
  IF count <= messages_per_round THEN 0
  ELSE Max(0, count - messages_per_round * 2)

FormatAgentHistory(msgs, agents, current_agent, round) ==
  IF msgs = <<>> THEN NoHistory
  ELSE
    LET per == Len(agents)
        start_idx == HistoryStart(Len(msgs), per)
        Entry(g) == [index |-> g,
                     agent_key |-> agents[(g % per) + 1],
                     msg_round |-> (g \div per) + 1,
                     kind |-> msgs[g + 1].kind]
        Line(g) == [index |-> g,
                    agent_key |-> Entry(g).agent_key,
                    round_label |-> IF Entry(g).msg_round < round
                                    THEN Entry(g).msg_round ELSE round,
                    kind |-> Entry(g).kind]
        Own(e) == e.agent_key = current_agent /\ e.msg_round < round
    IN  [window |-> [i \in 1..(Len(msgs) - start_idx) |-> Line(start_idx + i - 1)],
         own |-> SelectSeq([i \in 1..Len(msgs) |-> Entry(i - 1)], Own)]

(***************************************************************************)
(* One update of current_graph.stream: the node `node` runs (agent_node    *)
(* with _generate_agent_response inside), its update is applied to the     *)
(* state, and the worker handles the update up to the built MessageItem.   *)
(* model_ok: the model call returns; otherwise it raises and the except    *)
(* branch of _generate_agent_response returns the error turn, which leaves *)
(* current_round as it was.  No exception leaves _generate_agent_response, *)
(* so the except branches of agent_node (goto END) are not reached.        *)
(***************************************************************************)
WorkerStream ==
  /\ wpc = "stream"
  /\ node # "END"
  /\ IF total_messages >= TotalExpected(max_rounds, active_agents)
     THEN \* update {"messages": []}, goto END: the worker skips it
          /\ node' = "END"
          /\ UNCHANGED <<ragVars, messages, total_messages, current_round,
                         current_agent_index, agent_paper_cache,
                         first_round_rag_completed, workerVars, histVars>>
     ELSE IF node # ExpectedAgent(total_messages, active_agents)
     THEN \* update {"messages": []}, goto the expected agent
          /\ node' = ExpectedAgent(total_messages, active_agents)
          /\ UNCHANGED <<ragVars, messages, total_messages, current_round,
                         current_agent_index, agent_paper_cache,
                         first_round_rag_completed, workerVars, histVars>>
     ELSE \E model_ok \in BOOLEAN, papers \in BOOLEAN, fault \in RagFaults,
             speech \in TtsOutcomes(tts_enabled) :
          LET turn_round == RoundOfTotal(total_messages, active_agents)
              rag == GetRagContextForAgent(node, papers, fault)
              ran == deepseek
              spoke == deepseek /\ model_ok
              kind == IF spoke THEN "speech" ELSE "error"
              new_total == IF spoke THEN SpeechTurnTotal(total_messages)
                           ELSE ErrorTurnTotal(total_messages)
          IN  /\ messages' = Append(messages, [agent |-> node, kind |-> kind])
              /\ total_messages' = new_total
              /\ current_agent_index' = current_agent_index + 1
              /\ current_round' = IF spoke THEN NewRound(new_total) ELSE current_round
              /\ agent_paper_cache' =
                   IF ran THEN rag.agent_paper_cache ELSE agent_paper_cache
              /\ first_round_rag_completed' =
                   IF ran THEN rag.first_round_rag_completed
                   ELSE first_round_rag_completed
              /\ result_cache' = IF ran THEN rag.result_cache ELSE result_cache
              /\ fetch_calls' = IF ran THEN rag.fetch_calls ELSE fetch_calls
              /\ agent_disk_cache' =
                   IF ran THEN rag.agent_disk_cache ELSE agent_disk_cache
              /\ node' = NextNode(new_total)
              /\ message_count' = message_count + 1
              /\ pending' = NewMessageItem(node, kind, message_count + 1,
                                            TtsResult(speech))
              /\ wpc' = "put"
              /\ last_turn' = [order |-> new_total, agent |-> node,
                               round |-> turn_round,
                               fetched |-> ran /\ rag.fetched,
                               context |-> IF ran THEN rag.context ELSE NoContext,
                               kind |-> kind, tts |-> speech,
                               history |->
                                 IF ran
                                 THEN FormatAgentHistory(messages, active_agents,
                                                         node, turn_round)
                                 ELSE NoHistory]
              /\ stored_at' =
                   IF ran /\ rag.stored
                   THEN [stored_at EXCEPT ![node] = now]
                   ELSE stored_at
              /\ round1_fetch' =
                   IF ran /\ rag.fetched /\ turn_round = 1
                   THEN [round1_fetch EXCEPT ![node] =
                           IF rag.context = NotFound THEN NoMaterial ELSE rag.context]
                   ELSE round1_fetch
  /\ UNCHANGED <<cfgVars, sideVars, managerVars, mainVars>>

\* debate_manager.message_queue.put(message_item)
WorkerPut ==
  /\ wpc = "put"
  /\ message_queue' = Append(message_queue, pending)
  /\ wpc' = "count"
  /\ UNCHANGED <<cfgVars, sideVars, ragVars, graphVars, mainVars, histVars,
                 message_count, pending, is_generating, generation_complete,
                 total_expected_messages, messages_generated, is_playing>>

\* debate_manager.messages_generated = message_count
WorkerCount ==
  /\ wpc = "count"
  /\ messages_generated' = message_count
  /\ pending' = NoItem
  /\ wpc' = "stream"
  /\ UNCHANGED <<cfgVars, sideVars, ragVars, graphVars, mainVars, histVars,
                 message_count, message_queue, is_generating,
                 generation_complete, total_expected_messages, is_playing>>

\* The stream is exhausted: generation_complete = True.
WorkerComplete ==
  /\ wpc = "stream"
  /\ node = "END"
  /\ generation_complete' = TRUE
  /\ wpc' = "stopping"
  /\ UNCHANGED <<cfgVars, sideVars, ragVars, graphVars, mainVars, histVars,
                 message_count, pending, message_queue, is_generating,
                 total_expected_messages, messages_generated, is_playing>>

\* Faulty variant: the worker clears the playback flag when it ends.
WorkerStopClearsPlaying ==
  /\ wpc = "stopping"
  /\ is_generating' = FALSE
  /\ is_playing' = FALSE
  /\ wpc' = "done"
  /\ UNCHANGED <<cfgVars, sideVars, ragVars, graphVars, mainVars, histVars,
                 message_count, pending, message_queue, generation_complete,
                 total_expected_messages, messages_generated>>

\* is_generating = False; the thread ends.
WorkerStop ==
  /\ wpc = "stopping"
  /\ is_generating' = FALSE
  /\ wpc' = "done"
  /\ UNCHANGED <<cfgVars, sideVars, ragVars, graphVars, mainVars, histVars,
                 message_count, pending, message_queue, generation_complete,
                 total_expected_messages, messages_generated, is_playing>>

\* The except branch of the worker: an exception raised inside its try block
\* (by the graph's stream or while an update is handled) ends the generation
\* with generation_complete = True; is_generating = False follows.
WorkerFault ==
  /\ wpc \in {"stream", "put", "count"}
  /\ generation_complete' = TRUE
  /\ pending' = NoItem
  /\ wpc' = "stopping"
  /\ UNCHANGED <<cfgVars, sideVars, ragVars, graphVars, mainVars, histVars,
                 message_count, message_queue, is_generating,
                 total_expected_messages, messages_generated, is_playing>>

Worker ==
  \/ WorkerBegin
  \/ WorkerStream
  \/ WorkerPut
  \/ WorkerCount
  \/ WorkerComplete
  \/ WorkerStop

(***************************************************************************)
(* The playback loop of generate_response, one step per shared access.     *)
(***************************************************************************)
\* temp_messages.sort(key=lambda x: x.generation_order): a stable insertion sort.
RECURSIVE InsertByOrder(_, _)
InsertByOrder(item, sorted) ==
  IF sorted = <<>> THEN <<item>>
  ELSE IF item.generation_order < Head(sorted).generation_order
  THEN <<item>> \o sorted
  ELSE <<Head(sorted)>> \o InsertByOrder(item, Tail(sorted))

RECURSIVE SortByOrder(_)
SortByOrder(items) ==
  IF items = <<>> THEN <<>>
  ELSE InsertByOrder(items[Len(items)], SortByOrder(SubSeq(items, 1, Len(items) - 1)))

\* next_play_order = len(st.session_state.displayed_messages) + 1
NextPlayOrder(displayed) == Len(displayed) + 1

\* Faulty variant: the loop plays the first buffered item whatever its order.
FindOrderHead(items, order) ==
  IF items = <<>> THEN NoItem ELSE Head(items)

\* The first item of temp_messages with the wanted order, or NoItem (None).
RECURSIVE FindOrder(_, _)
FindOrder(items, order) ==
  IF items = <<>> THEN NoItem
  ELSE IF Head(items).generation_order = order THEN Head(items)
  ELSE FindOrder(Tail(items), order)

\* Faulty variant: the loop looks for a message only when two are waiting.
PlayDueNeedsTwo(displayed, qsize, playing) == Len(displayed) + 1 < qsize /\ ~playing

\* The condition under which the loop looks for a message to play.
PlayDue(displayed, qsize, playing) == Len(displayed) < qsize /\ ~playing

\* Faulty variant: the loop leaves as soon as the generation is complete.
PlaybackFinishedEarly(complete, displayed, expected) == complete

\* The loop's exit condition.
PlaybackFinished(complete, displayed, expected) ==
  complete /\ Len(displayed) >= expected

\* The values the loop shows as status: generated and expected, queue size,
\* displayed.
StatusMetrics ==
  [generated |-> messages_generated,
   expected |-> total_expected_messages,
   queued |-> Len(message_queue),
   displayed |-> Len(displayed_messages)]

\* Faulty variant: the queue size is found by taking an item off the queue.
PlayCheckTakesItem ==
  /\ pc = "check"
  /\ IF PlayDue(displayed_messages, Len(message_queue), is_playing)
     THEN pc' = "drain" /\ temp_messages' = <<>> /\ message_item' = NoItem
     ELSE pc' = "exit_check" /\ UNCHANGED <<temp_messages, message_item>>
  /\ message_queue' = IF message_queue = <<>> THEN <<>> ELSE Tail(message_queue)
  /\ UNCHANGED <<cfgVars, sideVars, ragVars, graphVars, workerVars, histVars,
                 is_generating, generation_complete, total_expected_messages,
                 messages_generated, is_playing,
                 preload_idx, displayed_messages, requeue_left>>

\* Top of the loop: the status metrics (reads only) and the test for a new message.
PlayCheck ==
  /\ pc = "check"
  /\ IF PlayDue(displayed_messages, Len(message_queue), is_playing)
     THEN pc' = "drain" /\ temp_messages' = <<>> /\ message_item' = NoItem
     ELSE pc' = "exit_check" /\ UNCHANGED <<temp_messages, message_item>>
  /\ UNCHANGED <<cfgVars, sideVars, ragVars, graphVars, workerVars, managerVars, histVars,
                 preload_idx, displayed_messages, requeue_left>>

\* Faulty variant: only the messages not displayed yet are kept for the put-back.
PlayDrainKeepsUnplayed ==
  /\ pc = "drain"
  /\ IF message_queue # <<>>
     THEN /\ temp_messages' = Append(temp_messages, Head(message_queue))
          /\ message_queue' = Tail(message_queue)
          /\ UNCHANGED <<pc, requeue_left>>
     ELSE /\ temp_messages' = SortByOrder(temp_messages)
          /\ requeue_left' =
               SelectSeq(SortByOrder(temp_messages),
                         LAMBDA m : m.generation_order > Len(displayed_messages))
          /\ pc' = "requeue"
          /\ UNCHANGED message_queue
  /\ UNCHANGED <<cfgVars, sideVars, ragVars, graphVars, workerVars, histVars,
                 is_generating, generation_complete, total_expected_messages,
                 messages_generated, is_playing,
                 preload_idx, displayed_messages, message_item>>

\* while not queue.empty(): temp_messages.append(queue.get_nowait()); then the sort.
PlayDrain ==
  /\ pc = "drain"
  /\ IF message_queue # <<>>
     THEN /\ temp_messages' = Append(temp_messages, Head(message_queue))
          /\ message_queue' = Tail(message_queue)
          /\ UNCHANGED <<pc, requeue_left>>
     ELSE /\ temp_messages' = SortByOrder(temp_messages)
          /\ requeue_left' = SortByOrder(temp_messages)
          /\ pc' = "requeue"
          /\ UNCHANGED message_queue
  /\ UNCHANGED <<cfgVars, sideVars, ragVars, graphVars, workerVars, histVars,
                 is_generating, generation_complete, total_expected_messages,
                 messages_generated, is_playing,
                 preload_idx, displayed_messages, message_item>>

\* for msg in temp_messages: queue.put(msg); then the search for the next order,
\* and is_playing = True when it is found.  The locals of the iteration are dead
\* once they have been used and are cleared.
PlayRequeue ==
  /\ pc = "requeue"
  /\ IF requeue_left # <<>>
     THEN /\ message_queue' = Append(message_queue, Head(requeue_left))
          /\ requeue_left' = Tail(requeue_left)
          /\ UNCHANGED <<pc, message_item, is_playing>>
     ELSE LET found == FindOrder(temp_messages, NextPlayOrder(displayed_messages))
          IN  /\ message_item' = found
              /\ is_playing' = (found # NoItem)
              /\ pc' = IF found # NoItem THEN "present" ELSE "exit_check"
              /\ UNCHANGED <<message_queue, requeue_left>>
  /\ temp_messages' = IF requeue_left # <<>> THEN temp_messages ELSE <<>>
  /\ UNCHANGED <<cfgVars, sideVars, ragVars, graphVars, workerVars, histVars,
                 is_generating, generation_complete, total_expected_messages,
                 messages_generated,
                 preload_idx, displayed_messages>>

\* Faulty variant: the except branch leaves is_playing as the try block set it.
PlayPresentKeepsFlag ==
  /\ pc = "present"
  /\ \E presented \in BOOLEAN :
       IF presented
       THEN /\ displayed_messages' = Append(displayed_messages, message_item)
            /\ pc' = "finish"
            /\ message_item' = NoItem
       ELSE /\ pc' = "exit_check"
            /\ UNCHANGED <<displayed_messages, message_item>>
  /\ UNCHANGED <<cfgVars, sideVars, ragVars, graphVars, workerVars, histVars,
                 message_queue, is_generating, generation_complete,
                 total_expected_messages, messages_generated, is_playing,
                 preload_idx, temp_messages, requeue_left>>

\* display_message_with_audio returns and the item is appended to the displayed
\* messages (presented = TRUE), or the presentation raises and the except branch
\* resets is_playing.  After an exception the local message_item keeps the item
\* until the next iteration assigns it; after a presentation it is dead.
PlayPresent ==
  /\ pc = "present"
  /\ \E presented \in BOOLEAN :
       IF presented
       THEN /\ displayed_messages' = Append(displayed_messages, message_item)
            /\ pc' = "finish"
            /\ message_item' = NoItem
            /\ UNCHANGED is_playing
       ELSE /\ is_playing' = FALSE
            /\ pc' = "exit_check"
            /\ UNCHANGED <<displayed_messages, message_item>>
  /\ UNCHANGED <<cfgVars, sideVars, ragVars, graphVars, workerVars, histVars,
                 message_queue, is_generating, generation_complete,
                 total_expected_messages, messages_generated,
                 preload_idx, temp_messages, requeue_left>>

\* Faulty variant: is_playing is not reset after the presentation.
PlayFinishKeepsFlag ==
  /\ pc = "finish"
  /\ pc' = "exit_check"
  /\ UNCHANGED <<cfgVars, sideVars, ragVars, graphVars, workerVars, managerVars, histVars,
                 preload_idx, displayed_messages, temp_messages, requeue_left,
                 message_item>>

\* debate_manager.is_playing = False after the presentation.
PlayFinish ==
  /\ pc = "finish"
  /\ is_playing' = FALSE
  /\ pc' = "exit_check"
  /\ UNCHANGED <<cfgVars, sideVars, ragVars, graphVars, workerVars, histVars,
                 message_queue, is_generating, generation_complete,
                 total_expected_messages, messages_generated,
                 preload_idx, displayed_messages, temp_messages, requeue_left,
                 message_item>>

\* The completion test at the bottom of the loop; otherwise sleep and loop.
PlayExitCheck ==
  /\ pc = "exit_check"
  /\ pc' = IF PlaybackFinished(generation_complete, displayed_messages,
                               total_expected_messages)
           THEN "done" ELSE "check"
  /\ UNCHANGED <<cfgVars, sideVars, ragVars, graphVars, workerVars, managerVars, histVars,
                 preload_idx, displayed_messages, temp_messages, requeue_left,
                 message_item>>

Playback ==
  \/ PlayCheck
  \/ PlayDrain
  \/ PlayRequeue
  \/ PlayPresent
  \/ PlayFinish
  \/ PlayExitCheck

\* The warm-up and the worker thread driving the graph.
Next == Preload \/ StartThread \/ Worker

Spec == Init /\ [][Next]_vars

\* Sessions with speech synthesis and without retrieval.
InitTts == InitSession /\ tts_enabled /\ ~rag_enabled /\ ~rag_faults

SpecTts == InitTts /\ [][Next]_vars

\* Sessions with retrieval in which the retrieval module meets exceptions in
\* its own code.
InitRagFault ==
  InitSession /\ rag_faults /\ rag_enabled /\ rag_module /\ ~tts_enabled

SpecRagFault == InitRagFault /\ [][Next]_vars

\* A session the user starts with retrieval switched off.
InitPlay == Init /\ ~rag_enabled

\* The worker thread and the playback loop, interleaved.
NextPlay == Preload \/ StartThread \/ Worker \/ Playback

SpecPlay == InitPlay /\ [][NextPlay]_vars

\* The worker thread, once started, and the main thread are scheduled.
FairSpec == Spec /\ WF_vars(Next)

\* The except branch of the worker is open to the scheduler as well.
NextFault == Preload \/ StartThread \/ Worker \/ WorkerFault \/ Playback

\* Sessions for the progress properties of the playback loop: no retrieval and
\* the model not initialised (deepseek is None), so that every turn is the
\* error turn of its role; the worker and the loop handle all turns alike.
InitFault == InitPlay /\ ~deepseek

SpecFault == InitFault /\ [][NextFault]_vars

\* Both threads are scheduled: the worker takes its next step, the main thread
\* takes its next step, and a presentation that is tried again and again does
\* not raise every time.  An exception in the worker is never forced.
\* The main thread has a next step unless generate_response has returned.
MainStep == Preload \/ StartThread \/ Playback

MainEnabled == pc \notin {"done", "returned"}

\* The weak fairness of the main thread is written with its enabling condition.
Fairness ==
  /\ WF_vars(Worker)
  /\ ([]<>(~MainEnabled) \/ []<><<MainStep>>_vars)
  /\ SF_vars(PlayPresent /\ pc' = "finish")

FairFault == SpecFault /\ Fairness

(***************************************************************************)
(* A second debate in the same browser session.  Streamlit ends the running *)
(* script at one of its calls in the playback loop when the user acts on a  *)
(* widget, and runs the script again: the start button calls                *)
(* generate_response, which resets the DebateManager of the session state   *)
(* and builds a new graph state.  Nothing stops or joins the daemon thread  *)
(* of the run that was ended: it goes on with its own graph state, its own  *)
(* counter and the same DebateManager.  The selection is made again as it   *)
(* was.                                                                     *)
(***************************************************************************)
Rerun ==
  /\ pc = "check"
  /\ prev_wpc = "none"
  \* the thread of the run that is ended
  /\ prev_wpc' = wpc
  /\ prev_count' = message_count
  /\ prev_total' = total_messages
  /\ prev_pending' = pending
  /\ stale_puts' = 0
  \* debate_manager.reset() and total_expected_messages
  /\ message_queue' = <<>>
  /\ is_generating' = FALSE
  /\ generation_complete' = FALSE
  /\ messages_generated' = 0
  /\ is_playing' = FALSE
  /\ total_expected_messages' = TotalExpected(max_rounds, active_agents)
  \* the inputs of the new graph and the new run of the main thread
  /\ messages' = <<>>
  /\ total_messages' = 0
  /\ current_round' = 0
  /\ current_agent_index' = 0
  /\ agent_paper_cache' = EmptyDict
  /\ first_round_rag_completed' = <<>>
  /\ node' = active_agents[1]
  /\ wpc' = "unstarted"
  /\ message_count' = 0
  /\ pending' = NoItem
  /\ pc' = "preload"
  /\ preload_idx' = 1
  /\ temp_messages' = <<>>
  /\ requeue_left' = <<>>
  /\ message_item' = NoItem
  /\ last_turn' = NoTurn
  /\ round1_fetch' = [r \in Roles |-> NoContext]
  /\ stored_at' = [r \in Roles |-> 0]
  /\ UNCHANGED <<cfgVars, ragVars, displayed_messages, now, callers, cancelled_at, libVars>>

\* The thread of the earlier debate: background_generation_worker on its own
\* graph state (prev_total turns committed) and its own message_count.
PrevBegin ==
  /\ prev_wpc = "begin"
  /\ is_generating' = TRUE
  /\ prev_count' = 0
  /\ prev_wpc' = "stream"
  /\ UNCHANGED <<cfgVars, ragVars, now, callers, cancelled_at, libVars, graphVars, workerVars, mainVars, histVars,
                 message_queue, generation_complete, total_expected_messages,
                 messages_generated, is_playing,
                 prev_total, prev_pending, stale_puts>>

PrevStream ==
  /\ prev_wpc = "stream"
  /\ prev_total < TotalExpected(max_rounds, active_agents)
  /\ \E model_ok \in BOOLEAN :
       LET spoke == deepseek /\ model_ok
           kind == IF spoke THEN "speech" ELSE "error"
       IN  /\ prev_total' = IF spoke THEN SpeechTurnTotal(prev_total)
                            ELSE ErrorTurnTotal(prev_total)
           /\ prev_count' = prev_count + 1
           /\ prev_pending' =
                NewMessageItem(ExpectedAgent(prev_total, active_agents), kind,
                               prev_count + 1, TtsResult("off"))
  /\ prev_wpc' = "put"
  /\ UNCHANGED <<cfgVars, ragVars, now, callers, cancelled_at, libVars, graphVars, workerVars, managerVars, mainVars,
                 histVars, stale_puts>>

PrevPut ==
  /\ prev_wpc = "put"
  /\ message_queue' = Append(message_queue, prev_pending)
  /\ stale_puts' = stale_puts + 1
  /\ prev_wpc' = "count"
  /\ UNCHANGED <<cfgVars, ragVars, now, callers, cancelled_at, libVars, graphVars, workerVars, mainVars, histVars,
                 is_generating, generation_complete, total_expected_messages,
                 messages_generated, is_playing,
                 prev_count, prev_total, prev_pending>>

PrevCount ==
  /\ prev_wpc = "count"
  /\ messages_generated' = prev_count
  /\ prev_pending' = NoItem
  /\ prev_wpc' = "stream"
  /\ UNCHANGED <<cfgVars, ragVars, now, callers, cancelled_at, libVars, graphVars, workerVars, mainVars, histVars,
                 message_queue, is_generating, generation_complete,
                 total_expected_messages, is_playing,
                 prev_count, prev_total, stale_puts>>

PrevComplete ==
  /\ prev_wpc = "stream"
  /\ prev_total >= TotalExpected(max_rounds, active_agents)
  /\ generation_complete' = TRUE
  /\ prev_wpc' = "stopping"
  /\ UNCHANGED <<cfgVars, ragVars, now, callers, cancelled_at, libVars, graphVars, workerVars, mainVars, histVars,
                 message_queue, is_generating, total_expected_messages,
                 messages_generated, is_playing,
                 prev_count, prev_total, prev_pending, stale_puts>>

PrevStop ==
  /\ prev_wpc = "stopping"
  /\ is_generating' = FALSE
  /\ prev_wpc' = "done"
  /\ UNCHANGED <<cfgVars, ragVars, now, callers, cancelled_at, libVars, graphVars, workerVars, mainVars, histVars,
                 message_queue, generation_complete, total_expected_messages,
                 messages_generated, is_playing,
                 prev_count, prev_total, prev_pending, stale_puts>>

PrevWorker ==
  \/ PrevBegin
  \/ PrevStream
  \/ PrevPut
  \/ PrevCount
  \/ PrevComplete
  \/ PrevStop

\* A session without retrieval and without a model in which the debate is
\* started a second time.
NextRestart == Preload \/ StartThread \/ Worker \/ Rerun \/ PrevWorker

SpecRestart == InitFault /\ [][NextRestart]_vars

(***************************************************************************)
(* The user cancels the debate.  The page has no control for it and the    *)
(* DebateManager no flag: what the user can do is stop the script, and     *)
(* Streamlit then ends the run of generate_response at one of its calls in *)
(* the playback loop.  Nothing tells the daemon thread, which has no test   *)
(* for a stop in its loop over the stream.                                  *)
(***************************************************************************)
StopScript ==
  /\ pc = "check"
  /\ wpc # "unstarted"
  /\ cancelled_at = -1
  /\ pc' = "cancelled"
  /\ cancelled_at' = message_count
  /\ UNCHANGED <<cfgVars, ragVars, graphVars, workerVars, managerVars, histVars,
                 prevVars, now, callers, libVars,
                 preload_idx, displayed_messages, temp_messages, requeue_left,
                 message_item>>

NextCancel == Preload \/ StartThread \/ Worker \/ Playback \/ StopScript

SpecCancel == InitFault /\ [][NextCancel]_vars

(***************************************************************************)
(* Time.  Six hours pass; nothing else changes.                            *)
(***************************************************************************)
Tick ==
  /\ now < MaxClock
  /\ now' = now + 1
  /\ UNCHANGED <<cfgVars, ragVars, graphVars, workerVars, managerVars, mainVars,
                 histVars, prevVars, callers, cancelled_at, libVars>>

\* The warm-up and the worker thread driving the graph, while time passes.
NextClock == Preload \/ StartThread \/ Worker \/ Tick

SpecClock == Init /\ [][NextClock]_vars

(***************************************************************************)
(* Sessions that follow each other on the same topic, seen from the cache  *)
(* directory they share: each call is the retrieval a session makes for a  *)
(* role in its warm-up or in the first-round branch of the graph,          *)
(* rag_module.get_rag_context_for_agent(..., force_refresh=True).          *)
(***************************************************************************)
SessionRoles == {active_agents[1], active_agents[2]}

RetrievalCall ==
  \E agent_role \in SessionRoles, papers \in BOOLEAN :
    LET f == RagModuleContext(agent_role, papers, "none")
    IN  /\ fetch_calls[agent_role] < MaxFetches
        /\ result_cache' = f.result_cache
        /\ fetch_calls' = f.fetch_calls
        /\ agent_disk_cache' = f.agent_disk_cache
        /\ UNCHANGED <<cfgVars, sideVars, graphVars, workerVars, managerVars,
                       mainVars, histVars>>

InitCache == Init /\ rag_enabled /\ rag_module

NextCache == RetrievalCall \/ Tick

SpecCache == InitCache /\ [][NextCache]_vars

(***************************************************************************)
(* Threads that are inside rag_module.get_rag_context_for_agent at the     *)
(* same time (force_refresh = True): the module and its cache directory    *)
(* are shared by the threads of the process, and the function takes no     *)
(* lock.  A call reads the result cache, then calls the provider when it   *)
(* has missed and stores a non-empty answer, then builds the context and   *)
(* writes the role cache.                                                  *)
(***************************************************************************)
\* search_academic_sources: get_cached_results
CallCheck(c) ==
  /\ callers[c].pc = "idle"
  /\ \E agent_role \in SessionRoles :
       LET present == agent_role \in DOMAIN result_cache
           hit == present
                  /\ ~Expired(result_cache[agent_role].timestamp, CacheDuration)
       IN  /\ fetch_calls[agent_role] < MaxFetches
           /\ result_cache' = IF present /\ ~hit
                              THEN DictRemove(result_cache, agent_role)
                              ELSE result_cache
           /\ callers' = [callers EXCEPT ![c] =
                [pc |-> IF hit THEN "build" ELSE "search",
                 role |-> agent_role,
                 serial |-> IF hit THEN result_cache[agent_role].serial ELSE 0,
                 called |-> FALSE]]
  /\ UNCHANGED <<cfgVars, graphVars, workerVars, managerVars, mainVars, histVars,
                 prevVars, now, cancelled_at, libVars, fetch_calls, agent_disk_cache>>

\* search_academic_sources: kimi_searcher.search and cache_results
CallSearch(c) ==
  /\ callers[c].pc = "search"
  /\ \E papers \in BOOLEAN :
       LET agent_role == callers[c].role
           calls == [fetch_calls EXCEPT ![agent_role] = @ + 1]
           serial == IF papers THEN calls[agent_role] ELSE 0
       IN  /\ fetch_calls' = calls
           /\ result_cache' =
                IF papers
                THEN DictPut(result_cache, agent_role, ResultEntry(serial, now))
                ELSE result_cache
           /\ callers' = [callers EXCEPT ![c] =
                [pc |-> "build", role |-> agent_role, serial |-> serial,
                 called |-> TRUE]]
  /\ UNCHANGED <<cfgVars, graphVars, workerVars, managerVars, mainVars, histVars,
                 prevVars, now, cancelled_at, libVars, agent_disk_cache>>

\* The context is built, written to the role cache and returned.
CallBuild(c) ==
  /\ callers[c].pc = "build"
  /\ LET agent_role == callers[c].role
         context == IF callers[c].serial = 0 THEN NoMaterial
                    ELSE Payload(callers[c].serial)
     IN  agent_disk_cache' =
           IF context # NoMaterial
           THEN DictPut(agent_disk_cache, agent_role, AgentEntry(context, now))
           ELSE agent_disk_cache
  /\ callers' = [callers EXCEPT ![c] = NoCall]
  /\ UNCHANGED <<cfgVars, graphVars, workerVars, managerVars, mainVars, histVars,
                 prevVars, now, cancelled_at, libVars, fetch_calls, result_cache>>

NextCallers ==
  \E c \in Callers : CallCheck(c) \/ CallSearch(c) \/ CallBuild(c)

SpecCallers == InitCache /\ [][NextCallers]_vars

(***************************************************************************)
(* The call of generate_response with any selection of roles and any       *)
(* number of rounds: the reset of the manager, the checks of the           *)
(* selection, total_expected_messages and create_multi_agent_graph, whose  *)
(* ValueError makes generate_response return.  No check reads max_rounds.  *)
(***************************************************************************)
\* A role id that AVAILABLE_ROLES does not hold.
UnknownRole == "moderator"

\* n role ids of the catalog, taken in its order.
Offered(n) == [i \in 1..n |-> RoleCatalog[((i - 1) % Len(RoleCatalog)) + 1]]

Selections ==
  {Offered(n) : n \in 0..MaxSelected}
    \cup UNION {{[Offered(n) EXCEPT ![j] = UnknownRole] : j \in {1, n}} :
                  n \in 1..MaxSelected}

\* generate_response: the selection passes the checks made before the graph.
SelectionAccepted(selected) ==
  /\ selected # <<>>
  /\ Len(selected) >= MinAgents
  /\ Len(selected) <= MaxAgents

\* Faulty variant: the role ids are not looked up in the catalog.
GraphCreatedAnyRole(agents) ==
  /\ Len(agents) >= MinAgents
  /\ Len(agents) <= MaxAgents

\* create_multi_agent_graph returns a graph (it raises ValueError otherwise).
GraphCreated(agents) ==
  /\ Len(agents) >= MinAgents
  /\ Len(agents) <= MaxAgents
  /\ \A i \in 1..Len(agents) : agents[i] \in Roles

Validate ==
  /\ pc = "validate"
  \* debate_manager.reset()
  /\ message_queue' = <<>>
  /\ is_generating' = FALSE
  /\ generation_complete' = FALSE
  /\ messages_generated' = 0
  /\ is_playing' = FALSE
  /\ IF ~SelectionAccepted(active_agents)
     THEN /\ total_expected_messages' = 0
          /\ pc' = "returned"
          /\ UNCHANGED node
     ELSE /\ total_expected_messages' = TotalExpected(max_rounds, active_agents)
          /\ IF GraphCreated(active_agents)
             THEN pc' = "preload" /\ node' = active_agents[1]
             ELSE pc' = "returned" /\ UNCHANGED node
  /\ UNCHANGED <<cfgVars, sideVars, ragVars, workerVars, histVars,
                 messages, total_messages, current_round, current_agent_index,
                 agent_paper_cache, first_round_rag_completed,
                 preload_idx, displayed_messages, temp_messages, requeue_left,
                 message_item>>

\* The state in which generate_response is called: a new DebateManager, no
\* graph; retrieval and speech synthesis are switched off.
InitCall ==
  /\ active_agents \in Selections
  /\ max_rounds \in 0..MaxRequested
  /\ rag_enabled = FALSE
  /\ deepseek \in BOOLEAN
  /\ rag_module = FALSE
  /\ tts_enabled = FALSE
  /\ rag_faults = FALSE
  /\ result_cache = EmptyIntDict
  /\ agent_disk_cache = EmptyDict
  /\ fetch_calls = [r \in Roles |-> 0]
  /\ messages = <<>>
  /\ total_messages = 0
  /\ current_round = 0
  /\ current_agent_index = 0
  /\ agent_paper_cache = EmptyDict
  /\ first_round_rag_completed = <<>>
  /\ node = "START"
  /\ wpc = "unstarted"
  /\ message_count = 0
  /\ pending = NoItem
  /\ message_queue = <<>>
  /\ is_generating = FALSE
  /\ generation_complete = FALSE
  /\ total_expected_messages = 0
  /\ messages_generated = 0
  /\ is_playing = FALSE
  /\ pc = "validate"
  /\ preload_idx = 1
  /\ displayed_messages = <<>>
  /\ temp_messages = <<>>
  /\ requeue_left = <<>>
  /\ message_item = NoItem
  /\ last_turn = NoTurn
  /\ round1_fetch = [r \in Roles |-> NoContext]
  /\ prev_wpc = "none"
  /\ prev_count = 0
  /\ prev_total = 0
  /\ prev_pending = NoItem
  /\ stale_puts = 0
  /\ now = 0
  /\ stored_at = [r \in Roles |-> 0]
  /\ callers = [c \in Callers |-> NoCall]
  /\ cancelled_at = -1
  /\ agent_cache_dir = EmptyDict
  /\ cache_dir = EmptyDict
  /\ module_call = NoModuleCall

\* The model is not initialised, so that every turn is the error turn of its
\* role.
InitStart == InitCall /\ ~deepseek

NextStart == Validate \/ Preload \/ StartThread \/ Worker

SpecStart == InitStart /\ [][NextStart]_vars

\* Debates of three roles that last long enough for a turn to have messages
\* behind it that are older than two rounds; the model is initialised.
InitHistory ==
  /\ InitCall
  /\ deepseek
  /\ active_agents = Offered(MinAgents)
  /\ max_rounds \in MinRounds..MaxLongRounds

SpecHistory == InitHistory /\ [][NextStart]_vars

(***************************************************************************)
(* The retrieval module called directly (rag_module.py), for any role,     *)
(* topic, max_sources and force_refresh, on a cache directory that starts  *)
(* empty.  A string is a sequence of its characters, where a role, a topic *)
(* and the ".json" ending each stand as one element.                       *)
(***************************************************************************)
Topics == {"topic_a", "topic_b"}

ModuleRoles == {RoleCatalog[1], RoleCatalog[2]}

\* f"agent_{agent_role}_{debate_topic}"
AgentKeyString(agent_role, debate_topic) ==
  <<"a", "g", "e", "n", "t", "_", agent_role, "_", debate_topic>>

\* f"agent_{agent_role}_": the start of a name that clear_agent_cache looks for.
AgentFilePrefix(agent_role) == <<"a", "g", "e", "n", "t", "_", agent_role, "_">>

\* hashlib.md5(...).hexdigest(): hexadecimal digits only.  One digit stands
\* for each of the role and the topic, so that different key strings have
\* different digests; a digest may well start with the digit "a".
HexDigit(part) ==
  CASE part = RoleCatalog[1] -> "a"
    [] part = RoleCatalog[2] -> "3"
    [] part = "topic_a" -> "e"
    [] OTHER -> "7"

Md5HexDigest(key_string) == <<HexDigit(key_string[7]), HexDigit(key_string[9])>>

\* _get_agent_cache_key and the file name built from it.
AgentCacheKey(agent_role, debate_topic) ==
  Md5HexDigest(AgentKeyString(agent_role, debate_topic))

AgentCacheFile(agent_role, debate_topic) ==
  AgentCacheKey(agent_role, debate_topic) \o <<".json">>

\* filename.startswith(prefix)
StartsWith(name, prefix) ==
  Len(prefix) <= Len(name) /\ SubSeq(name, 1, Len(prefix)) = prefix

\* The key of a result file: the role-focused query of a catalog role is
\* the topic followed by the keywords of the role.
ResultCacheKey(agent_role, debate_topic) == <<debate_topic, agent_role>>

\* None, as get_agent_cached_context returns it.
None == Ctx("none", 0)

\* A SearchResult: is_verified, and how often its printed fields (title,
\* key findings, verification notes) contain the words "参考资料".  The
\* results met are a verified one, a verified one whose title has the words
\* once, and one that is not verified.
ResultKinds ==
  {[is_verified |-> TRUE, mentions |-> 0], [is_verified |-> TRUE, mentions |-> 1],
   [is_verified |-> FALSE, mentions |-> 0]}

ResultLists == UNION {[1..n -> ResultKinds] : n \in 0..MaxResults}

RECURSIVE Mentions(_)
Mentions(results) ==
  IF results = <<>> THEN 0 ELSE Head(results).mentions + Mentions(Tail(results))

\* The context built from the chosen results: one entry "参考资料 i: ..." with
\* the fields of the result for each of them.
References(top_results) ==
  [kind |-> "references", entries |-> Len(top_results),
   mentions |-> Mentions(top_results)]

\* The number of reference entries of a context.
Entries(context) == IF context.kind = "references" THEN context.entries ELSE 0

\* context.count('参考资料'): every occurrence of the words, those of the entry
\* headers and those inside the fields; none of the fixed strings has them.
MarkerCount(context) ==
  IF context.kind = "references" THEN context.entries + context.mentions ELSE 0

\* Faulty variant: all the verified results are printed.
TopResultsAll(verified_results, max_sources) == verified_results

\* verified_results[:max_sources], for max_sources > 0.
TopResults(verified_results, max_sources) ==
  SubSeq(verified_results, 1, Min(Len(verified_results), max_sources))

\* RAGCache.get_agent_cached_context: None when there is no file; an expired
\* file is removed.
GetAgentCachedContext(dir, agent_role, debate_topic) ==
  LET cache_file == AgentCacheFile(agent_role, debate_topic)
  IN  IF cache_file \notin DOMAIN dir
      THEN [context |-> None, agent_cache_dir |-> dir]
      ELSE IF Expired(dir[cache_file].timestamp, AgentCacheDuration)
      THEN [context |-> None, agent_cache_dir |-> DictRemove(dir, cache_file)]
      ELSE [context |-> dir[cache_file].context, agent_cache_dir |-> dir]

\* RAGCache.cache_agent_context
CacheAgentContext(dir, agent_role, debate_topic, context) ==
  DictPut(dir, AgentCacheFile(agent_role, debate_topic),
          [agent_role |-> agent_role, debate_topic |-> debate_topic,
           context |-> context, timestamp |-> now])

\* RAGCache.clear_agent_cache: the files of the directory whose name starts
\* with the prefix of the role are removed, all files when no role is given.
ClearAgentCache(dir, agent_role) ==
  IF agent_role # ""
  THEN LET kept == {f \in DOMAIN dir : ~StartsWith(f, AgentFilePrefix(agent_role))}
       IN  [f \in kept |-> dir[f]]
  ELSE EmptyDict

\* search_academic_sources: the results of a result file that has not
\* expired, else the results of the provider (found), whose verified ones
\* are written to the result file.
SearchAcademicSources(dir, query, found) ==
  LET present == query \in DOMAIN dir
      hit == present /\ ~Expired(dir[query].timestamp, CacheDuration)
      kept == IF present /\ ~hit THEN DictRemove(dir, query) ELSE dir
      verified == SelectSeq(found, LAMBDA r : r.is_verified)
  IN  IF hit
      THEN [results |-> dir[query].results, cache_dir |-> kept, provider |-> FALSE]
      ELSE [results |-> found,
            cache_dir |-> IF verified # <<>>
                          THEN DictPut(kept, query,
                                       [results |-> verified, timestamp |-> now])
                          ELSE kept,
            provider |-> TRUE]

\* DynamicRAGModule.get_rag_context_for_agent: the context returned, the two
\* directories after the call, whether search_academic_sources was run and
\* whether the provider was called.
ModuleContext(agent_role, debate_topic, max_sources, force_refresh, found) ==
  LET unsearched == [context |-> NoMaterial,
                     agent_cache_dir |-> agent_cache_dir,
                     cache_dir |-> cache_dir,
                     searched |-> FALSE, provider |-> FALSE]
      cached == IF force_refresh
                THEN [context |-> None, agent_cache_dir |-> agent_cache_dir]
                ELSE GetAgentCachedContext(agent_cache_dir, agent_role, debate_topic)
      search == SearchAcademicSources(cache_dir,
                                      ResultCacheKey(agent_role, debate_topic), found)
      verified == SelectSeq(search.results, LAMBDA r : r.is_verified)
      verified_results == IF verified = <<>> THEN search.results ELSE verified
      context == IF search.results = <<>> THEN NoMaterial
                 ELSE References(TopResults(verified_results, max_sources))
  IN  IF agent_role = "" \/ debate_topic = "" \/ max_sources <= 0
      THEN unsearched
      ELSE IF cached.context # None /\ MarkerCount(cached.context) = max_sources
      THEN [unsearched EXCEPT !.context = cached.context,
                              !.agent_cache_dir = cached.agent_cache_dir]
      ELSE [context |-> context,
            agent_cache_dir |->
              IF context # NoMaterial
              THEN CacheAgentContext(cached.agent_cache_dir, agent_role,
                                     debate_topic, context)
              ELSE cached.agent_cache_dir,
            cache_dir |-> search.cache_dir,
            searched |-> TRUE,
            provider |-> search.provider]

\* A call of get_rag_context_for_agent.
ModuleGet ==
  /\ module_call.seq < MaxModuleCalls
  /\ \E agent_role \in ModuleRoles \cup {""}, debate_topic \in Topics,
        max_sources \in -1..MaxSourcesArg, force_refresh \in BOOLEAN,
        found \in ResultLists :
       LET r == ModuleContext(agent_role, debate_topic, max_sources,
                              force_refresh, found)
       IN  /\ agent_cache_dir' = r.agent_cache_dir
           /\ cache_dir' = r.cache_dir
           /\ module_call' = [seq |-> module_call.seq + 1, op |-> "get",
                              agent_role |-> agent_role,
                              debate_topic |-> debate_topic,
                              max_sources |-> max_sources,
                              force_refresh |-> force_refresh,
                              returned |-> IF r.provider THEN Len(found) ELSE 0,
                              context |-> r.context,
                              searched |-> r.searched,
                              provider |-> r.provider]
  /\ UNCHANGED <<cfgVars, ragVars, graphVars, workerVars, managerVars, mainVars,
                 histVars, prevVars, now, callers, cancelled_at>>

\* A call of cache.clear_agent_cache, with a role or with none.
ModuleClear ==
  /\ module_call.seq < MaxModuleCalls
  /\ \E agent_role \in ModuleRoles \cup {""} :
       /\ agent_cache_dir' = ClearAgentCache(agent_cache_dir, agent_role)
       /\ module_call' = [seq |-> module_call.seq + 1, op |-> "clear",
                          agent_role |-> agent_role]
  /\ UNCHANGED <<cfgVars, ragVars, graphVars, workerVars, managerVars, mainVars,
                 histVars, prevVars, now, callers, cancelled_at, cache_dir>>

\* A call of cache.get_agent_cached_context.
ModuleRead ==
  /\ module_call.seq < MaxModuleCalls
  /\ \E agent_role \in ModuleRoles, debate_topic \in Topics :
       LET r == GetAgentCachedContext(agent_cache_dir, agent_role, debate_topic)
       IN  /\ agent_cache_dir' = r.agent_cache_dir
           /\ module_call' = [seq |-> module_call.seq + 1, op |-> "read",
                              agent_role |-> agent_role,
                              debate_topic |-> debate_topic,
                              context |-> r.context]
  /\ UNCHANGED <<cfgVars, ragVars, graphVars, workerVars, managerVars, mainVars,
                 histVars, prevVars, now, callers, cancelled_at, cache_dir>>

NextModule == ModuleGet \/ ModuleClear \/ ModuleRead \/ Tick

\* No session runs while the module is called directly; its configuration
\* plays no part and is fixed.
InitModule ==
  /\ Init
  /\ active_agents = SubSeq(RoleCatalog, 1, MinAgents)
  /\ max_rounds = MinRounds
  /\ ~rag_enabled
  /\ ~deepseek

SpecModule == InitModule /\ [][NextModule]_vars

(***************************************************************************)
(* Properties of the graph and the worker (Spec, FairSpec).                *)
(***************************************************************************)
P == Len(active_agents)

\* The participant that round robin gives the k-th turn to.
Speaker(k) == active_agents[((k - 1) % P) + 1]

HasErrorTurn == \E k \in 1..Len(messages) : messages[k].kind = "error"

C1_Counts ==
  /\ total_messages <= max_rounds * P
  /\ message_count <= max_rounds * P
  /\ (node = "END" => total_messages = max_rounds * P)
  /\ (wpc \in {"stopping", "done"} =>
        /\ node = "END"
        /\ message_count = max_rounds * P
        /\ Len(message_queue) = max_rounds * P)

\* C1: a session of P participants and R rounds that starts with
\* total_messages = 0 commits exactly P*R turns and then ends: the count never
\* exceeds R*P, the graph is at END only with total_messages = R*P, and a started
\* worker does reach the end of the stream, whichever turns fail.
C1_ExactlyPRTurnsThenEnd ==
  /\ []C1_Counts
  /\ ((wpc = "begin") ~> (wpc = "done" /\ total_messages = max_rounds * P))

C1_Witness ==
  /\ wpc = "done"
  /\ total_messages = max_rounds * P
  /\ deepseek
  /\ HasErrorTurn
  /\ messages[Len(messages)].kind = "speech"

\* C2: the turn with generation_order = k is produced by and attributed to
\* active_agents[(k-1) mod P], in the graph's transcript, in the item the worker
\* builds and in the queue, also after error turns.
C2_RoundRobin ==
  /\ \A k \in 1..Len(messages) : messages[k].agent = Speaker(k)
  /\ (last_turn # NoTurn => last_turn.agent = Speaker(last_turn.order))
  /\ (pending # NoItem => pending.agent_key = Speaker(pending.generation_order))
  /\ \A i \in 1..Len(message_queue) :
       message_queue[i].agent_key = Speaker(message_queue[i].generation_order)

C2_Witness ==
  /\ Len(message_queue) = max_rounds * P
  /\ messages[1].kind = "error"
  /\ messages[P].kind = "error"
  /\ message_queue[P + 1].agent_key = active_agents[1]

\* C4: a turn that fails (model not initialised, or the model call raising) is
\* committed as an error turn of the scheduled role: the transcript gains that
\* role's error message, total_messages advances by one, and the graph goes on to
\* the next speaker, or to END when that was turn P*R.
C4_FailureDoesNotAbort ==
  [][(Len(messages') > Len(messages) /\ messages'[Len(messages')].kind = "error")
       => /\ node = Speaker(total_messages + 1)
          /\ messages' = Append(messages, [agent |-> node, kind |-> "error"])
          /\ total_messages' = total_messages + 1
          /\ node' = IF total_messages' = max_rounds * P THEN "END"
                     ELSE Speaker(total_messages' + 1)
          /\ pending'.message = "error"
          /\ pending'.agent_key = node]_vars

C4_Witness ==
  /\ deepseek
  /\ Len(messages) >= 3
  /\ messages[1].kind = "speech"
  /\ messages[2].kind = "error"
  /\ messages[3].kind = "speech"

\* C5: within one session the provider is called at most once per role (the
\* topic is fixed), the warm-up and the turns of the graph counted together.
C5_AtMostOneFetch == \A r \in Roles : fetch_calls[r] <= 1

\* C6: with retrieval enabled, the round-1 turn of every role (orders 1..P)
\* invokes the retrieval, and a usable result is stored under the role in
\* agent_paper_cache and the role is in first_round_rag_completed.
C6_Round1Retrieval ==
  (rag_enabled /\ rag_module /\ last_turn.order \in 1..P)
    => /\ last_turn.fetched
       /\ (round1_fetch[last_turn.agent].kind = "payload" =>
             /\ last_turn.agent \in DOMAIN agent_paper_cache
             /\ agent_paper_cache[last_turn.agent] = round1_fetch[last_turn.agent]
             /\ InSeq(last_turn.agent, first_round_rag_completed))

\* C7: a role whose round-1 fetch stored a payload gets exactly that payload as
\* the context of each of its turns in rounds 2..R, and those turns make no fetch.
C7_LaterRoundsReuse ==
  (last_turn.round >= 2 /\ round1_fetch[last_turn.agent].kind = "payload")
    => /\ last_turn.context = round1_fetch[last_turn.agent]
       /\ ~last_turn.fetched

C7_Witness ==
  /\ last_turn.round >= 2
  /\ round1_fetch[last_turn.agent].kind = "payload"
  /\ last_turn.context.kind = "payload"
  /\ current_round = 1

\* C8: a role whose round-1 fetch failed gets a fallback context, never a
\* fetched payload, in every one of its turns.
C8_FailedFetchStaysFallback ==
  (last_turn # NoTurn /\ round1_fetch[last_turn.agent] = NoMaterial)
    => last_turn.context.kind # "payload"

\* C10: the generation orders are 1, 2, 3, ... in enqueue order, and the item
\* carries its order, the worker's running count, before it is put on the queue.
C10_OrdersGapless ==
  /\ \A i \in 1..Len(message_queue) : message_queue[i].generation_order = i
  /\ (wpc = "put" =>
        /\ pending.generation_order = Len(message_queue) + 1
        /\ pending.generation_order = message_count)
  /\ (wpc \in {"count", "stream"} => Len(message_queue) = message_count)

C10_Witness ==
  /\ wpc = "put"
  /\ Len(message_queue) >= P
  /\ HasErrorTurn

\* C11: the round number stored in the turn with generation_order = k is
\* floor((k-1)/P) + 1, in the item the worker builds and in the queue; the P-th
\* turn belongs to round 1 and the (P+1)-th turn to round 2.
C11_ItemRound ==
  /\ \A i \in 1..Len(message_queue) :
       /\ message_queue[i].round_num =
            ((message_queue[i].generation_order - 1) \div P) + 1
       /\ (message_queue[i].generation_order = P => message_queue[i].round_num = 1)
       /\ (message_queue[i].generation_order = P + 1 =>
             message_queue[i].round_num = 2)
  /\ (pending # NoItem =>
        pending.round_num = ((pending.generation_order - 1) \div P) + 1)

C11_Witness ==
  /\ Len(message_queue) >= P + 1
  /\ message_queue[P].round_num = 1
  /\ message_queue[P + 1].round_num = 2
  /\ message_queue[P].message = "error"

\* C12: in every state of the graph the transcript is as long as the turn
\* counter says, after speeches and after error turns, and the i-th message
\* (counted from 0) was spoken by active_agents[i mod P].
C12_TranscriptLength ==
  /\ Len(messages) = total_messages
  /\ \A i \in 0..(Len(messages) - 1) :
       messages[i + 1].agent = active_agents[(i % P) + 1]

C12_Witness ==
  /\ total_messages >= P + 1
  /\ messages[P].kind = "error"
  /\ messages[P + 1].kind = "speech"
  /\ node # "END"

\* C13: after the k-th turn has been committed the state's current_round is
\* floor((k-1)/P) + 1, whether the turn was a speech or an error turn, and
\* current_round never exceeds max_rounds.
C13_CurrentRound ==
  /\ (last_turn # NoTurn =>
        current_round = ((last_turn.order - 1) \div P) + 1)
  /\ current_round <= max_rounds

(***************************************************************************)
(* Properties of the worker with speech synthesis (SpecTts).               *)
(***************************************************************************)
\* The message item that the turn with the order k has without its audio.
TextItem(k) ==
  [agent_key |-> Speaker(k), message |-> messages[k].kind,
   round_num |-> ((k - 1) \div P) + 1,
   audio_data |-> "none", audio_duration |-> 0, generation_order |-> k]

FailedSynthesisItem ==
  /\ (wpc = "put" /\ last_turn.tts \in TtsFailures) =>
        pending = TextItem(message_count)
  /\ \A i \in 1..Len(message_queue) :
       /\ message_queue[i].generation_order = i
       /\ (message_queue[i].audio_data = "none" => message_queue[i] = TextItem(i))
  /\ (wpc \in {"stopping", "done"} => Len(message_queue) = max_rounds * P)

\* C23: a speech synthesis that fails for a turn (no result, timeout,
\* exception) neither drops the turn nor moves it: the turn is put on the queue
\* in its place with the generation_order, role and text it has anyhow, without
\* audio and with duration 0, and the graph goes on to the next speaker.
C23_SynthesisFailureKeepsTurn ==
  /\ []FailedSynthesisItem
  /\ [][(Len(messages') > Len(messages) /\ last_turn'.tts \in TtsFailures)
          => /\ wpc' = "put"
             /\ message_count' = message_count + 1
             /\ node' = IF total_messages' = max_rounds * P THEN "END"
                        ELSE Speaker(total_messages' + 1)]_vars

C23_Witness ==
  /\ wpc = "done"
  /\ Len(message_queue) = max_rounds * P
  /\ message_queue[1].audio_data = "none"
  /\ message_queue[1].message = "speech"
  /\ message_queue[2].audio_data = "audio"
  /\ last_turn.tts = "timeout"

(***************************************************************************)
(* Properties of the history of a turn (SpecHistory).                      *)
(***************************************************************************)
\* The number of messages in the transcript when the last turn was made.
Behind == last_turn.order - 1

\* The window of the last turn's history is made of the last min(n, 2P)
\* messages, oldest first, each with its speaker and its round.
WindowIsRecent ==
  LET window == last_turn.history.window
      first == Behind - Len(window)
  IN  /\ Len(window) = Min(Behind, 2 * P)
      /\ \A i \in 1..Len(window) :
           /\ window[i].index = first + i - 1
           /\ window[i].agent_key = active_agents[(window[i].index % P) + 1]
           /\ window[i].round_label = (window[i].index \div P) + 1
           /\ window[i].kind = messages[window[i].index + 1].kind

\* The turns that the history of the last turn holds anywhere.
HistoryIndexes ==
  LET h == last_turn.history
  IN  {h.window[i].index : i \in 1..Len(h.window)}
        \cup {h.own[i].index : i \in 1..Len(h.own)}

FailureStrings == {NoMaterial, SearchProblem, BuildProblem}

\* C28: a retrieval attempt that ended in a technical failure is never stored
\* as if it were a payload: neither agent_paper_cache with
\* first_round_rag_completed nor the role cache on disk holds one of the
\* failure strings as the context of a role.
C28_FailureNeverStored ==
  \A agent_role \in Roles :
    /\ (agent_role \in DOMAIN agent_paper_cache =>
          agent_paper_cache[agent_role] \notin FailureStrings)
    /\ (InSeq(agent_role, first_round_rag_completed) =>
          /\ agent_role \in DOMAIN agent_paper_cache
          /\ agent_paper_cache[agent_role] \notin FailureStrings)
    /\ (agent_role \in DOMAIN agent_disk_cache =>
          agent_disk_cache[agent_role].context \notin FailureStrings)

(***************************************************************************)
(* Properties of the playback loop running beside the worker (SpecPlay).   *)
(***************************************************************************)
QueueOutOfOrder ==
  \E i, j \in 1..Len(message_queue) :
    i < j /\ message_queue[i].generation_order > message_queue[j].generation_order

\* C3: under every interleaving of the worker and the playback loop the i-th
\* displayed message is the turn with generation_order = i, the turn of the
\* i-th speaker of the round robin: ascending, without gaps or duplicates.
C3_PresentedInOrder ==
  \A i \in 1..Len(displayed_messages) :
    /\ displayed_messages[i].generation_order = i
    /\ displayed_messages[i].agent_key = Speaker(i)

C3_Witness ==
  /\ Len(displayed_messages) >= P + 1
  /\ QueueOutOfOrder

C9_Flag ==
  /\ is_playing <=> pc \in {"present", "finish"}
  /\ (pc = "present" =>
        message_item.generation_order = Len(displayed_messages) + 1)

\* C9: at most one turn is being presented: is_playing is true exactly while
\* the loop presents a turn, a presentation starts only from is_playing false,
\* and the presentation of turn k has ended, with is_playing false again,
\* before the presentation of turn k+1 starts.
C9_SinglePresentation ==
  /\ []C9_Flag
  /\ [][(pc' = "present" /\ pc # "present") => (~is_playing /\ is_playing')]_vars
  /\ [][(Len(displayed_messages') > Len(displayed_messages))
          => (is_playing /\ pc = "present" /\ pc' = "finish")]_vars
  /\ [][(pc = "finish" /\ pc' # "finish") => ~is_playing']_vars

C9_Witness ==
  /\ pc = "present"
  /\ is_playing
  /\ Len(displayed_messages) >= 1
  /\ Len(message_queue) > Len(displayed_messages) + 1

\* C16: the playback loop leaves its loop only when generation_complete is
\* true and at least total_expected_messages turns are displayed; it never
\* leaves while is_playing is true or while a generated turn is undisplayed.
C16_ExitOnlyWhenDrained ==
  /\ (pc = "done" =>
        /\ generation_complete
        /\ Len(displayed_messages) >= total_expected_messages
        /\ ~is_playing
        /\ Len(displayed_messages) = message_count
        /\ wpc \in {"stopping", "done"})
  /\ [][(pc' = "done" /\ pc # "done") =>
          /\ pc = "exit_check"
          /\ generation_complete
          /\ Len(displayed_messages) >= total_expected_messages
          /\ ~is_playing]_vars

C16_Witness ==
  /\ pc = "done"
  /\ Len(displayed_messages) = max_rounds * P
  /\ deepseek
  /\ displayed_messages[1].message = "error"

\* The number of turns the worker has put on the queue: the items in the queue
\* and those the playback loop holds between its drain and its put-back.
EnqueuedCount ==
  Len(message_queue) + Len(requeue_left)
    + (IF pc = "drain" THEN Len(temp_messages) ELSE 0)

\* C14: once the worker has stopped, after all P*R turns or in its except branch
\* with fewer turns generated, the playback loop eventually terminates.
C14_PlaybackTerminates == (wpc = "done") ~> (pc = "done")

WorkerOwned ==
  <<messages_generated, is_generating, generation_complete,
    total_expected_messages>>

PlaybackOwned == <<displayed_messages, is_playing>>

\* C25: while the session runs the playback loop writes none of
\* messages_generated, is_generating, generation_complete and
\* total_expected_messages, and the worker writes none of displayed_messages and
\* is_playing: a step that changes a field of the one group is a step of its
\* thread alone, so no field is written by both.
C25_DisjointWriters ==
  [][(wpc # "unstarted") =>
       /\ (WorkerOwned' # WorkerOwned => (wpc' # wpc /\ UNCHANGED mainVars))
       /\ (PlaybackOwned' # PlaybackOwned => (pc' # pc /\ UNCHANGED workerVars))]_vars

C25_Witness ==
  /\ pc = "finish"
  /\ is_playing
  /\ wpc = "stopping"
  /\ is_generating
  /\ Len(displayed_messages) >= 2

\* C29: in every state, under every interleaving of the worker and the
\* playback loop, the counters of the status satisfy
\* displayed <= messages_generated <= total_expected_messages.
C29_CountersOrdered ==
  /\ Len(displayed_messages) <= messages_generated
  /\ messages_generated <= total_expected_messages

\* The number of items the worker has put on the queue.
WorkerPuts == IF wpc = "put" THEN message_count - 1 ELSE message_count

\* C30: the drain, sort and put-back of the playback loop loses and doubles no
\* item, also when the worker puts items meanwhile: whenever the loop is
\* outside that step the queue holds exactly one item for each of the orders
\* 1..n that the worker has put so far, the presented ones included.
C30_RequeueKeepsItems ==
  (pc \notin {"drain", "requeue"}) =>
    /\ Len(message_queue) = WorkerPuts
    /\ \A k \in 1..WorkerPuts :
         Cardinality({i \in 1..Len(message_queue) :
                        message_queue[i].generation_order = k}) = 1

C30_Witness ==
  /\ pc = "present"
  /\ Len(displayed_messages) >= 1
  /\ QueueOutOfOrder
  /\ Len(message_queue) >= 3
  /\ message_queue[1].generation_order = Len(message_queue)

\* C27: reading the status (generated, queue size, displayed, expected)
\* changes no state: the step of the loop that reads it leaves the four values
\* and the state of the session as they were, so that a second read with no
\* step of the worker or of the playback in between returns the same values.
C27_StatusReadIsPure ==
  [][(pc = "check" /\ pc' # "check") =>
       /\ StatusMetrics' = StatusMetrics
       /\ UNCHANGED <<managerVars, workerVars, graphVars, displayed_messages>>]_vars

C27_Witness ==
  /\ pc = "drain"
  /\ temp_messages = <<>>
  /\ StatusMetrics.generated = 2
  /\ StatusMetrics.queued = 3
  /\ StatusMetrics.displayed = 1

\* C31: when the presentation of a turn raises, the turn is not appended to the
\* displayed messages and is_playing is false again; the item is still on the
\* queue and is the next one to play, so that the next iteration of the loop
\* finds a message due and drains the queue for the same generation order.
C31_PresentationFailureRetried ==
  /\ [][(pc = "present" /\ pc' = "exit_check")
          => /\ displayed_messages' = displayed_messages
             /\ ~is_playing'
             /\ message_item' = message_item]_vars
  /\ []((pc \in {"exit_check", "check"} /\ message_item # NoItem)
          => /\ ~is_playing
             /\ message_item.generation_order = NextPlayOrder(displayed_messages)
             /\ InSeq(message_item, message_queue)
             /\ PlayDue(displayed_messages, Len(message_queue), is_playing)
             /\ ~PlaybackFinished(generation_complete, displayed_messages,
                                  total_expected_messages))
  /\ [][(pc = "check" /\ message_item # NoItem /\ pc' # "check") => pc' = "drain"]_vars

\* The presentation of a turn after the first has raised, and the loop is back
\* at its top with the turn not displayed.
C31_Witness ==
  /\ pc = "check"
  /\ message_item # NoItem
  /\ message_item.generation_order = Len(displayed_messages) + 1
  /\ Len(displayed_messages) >= 1
  /\ ~is_playing

(***************************************************************************)
(* Properties of a debate started again in the same session (SpecRestart). *)
(***************************************************************************)
\* A worker thread that has been started and has not ended.
Running(worker_pc) == worker_pc \in {"begin", "stream", "put", "count", "stopping"}

\* C17: at most one generation worker enqueues into the DebateManager: when a
\* new debate has been started no worker of an earlier debate is running, the
\* queue holds no two items with the same generation_order and no item that a
\* worker of an earlier debate has put there.
C17_SingleWorker ==
  /\ ~(Running(wpc) /\ Running(prev_wpc))
  /\ \A i, j \in 1..Len(message_queue) :
       i # j => message_queue[i].generation_order # message_queue[j].generation_order
  /\ stale_puts = 0

(***************************************************************************)
(* Properties of a cancelled debate (SpecCancel).                          *)
(***************************************************************************)
\* C26: when the session is cancelled after exactly 2 turns have been
\* produced, the worker produces no third turn and the status reports 2
\* generated turns from then on.
C26_CancelStopsWorker ==
  (cancelled_at = 2) =>
    /\ message_count = 2
    /\ total_messages = 2
    /\ messages_generated <= 2

(***************************************************************************)
(* Properties of the caches over time (SpecClock).                         *)
(***************************************************************************)
\* C19: a cached retrieval entry whose ttl has elapsed is never returned as a
\* payload: a turn, also one of round 2 or later of a running session, that
\* takes its payload from a cache without fetching takes it from an entry
\* that is not older than the longest cache duration.
C19_NoExpiredPayload ==
  [][(Len(messages') > Len(messages)
        /\ last_turn'.context.kind = "payload"
        /\ ~last_turn'.fetched)
       => ~Expired(stored_at[node], CacheDuration)]_vars

(***************************************************************************)
(* Properties of the cache directory across sessions (SpecCache).          *)
(***************************************************************************)
\* A cache file of the role that has not expired: its role cache entry or the
\* result cache entry of its query.
LiveEntry(agent_role) ==
  \/ /\ agent_role \in DOMAIN agent_disk_cache
     /\ ~Expired(agent_disk_cache[agent_role].timestamp, AgentCacheDuration)
  \/ /\ agent_role \in DOMAIN result_cache
     /\ ~Expired(result_cache[agent_role].timestamp, CacheDuration)

\* C20: when an earlier session has left a cache entry for a role that has not
\* expired, the retrieval of a new session for that role is served from the
\* cache and makes no call to the provider.
C20_ServedFromCache ==
  [][\A agent_role \in Roles :
       LiveEntry(agent_role) => fetch_calls'[agent_role] = fetch_calls[agent_role]]_vars

(***************************************************************************)
(* Properties of concurrent calls of the retrieval module (SpecCallers).   *)
(***************************************************************************)
\* C18: of two calls for the same role and topic that are under way at the
\* same time at most one calls the provider; the other is served from the
\* result the first one stored.
C18_OneProviderCall ==
  \A c1, c2 \in Callers :
    (/\ c1 # c2
     /\ callers[c1].pc # "idle"
     /\ callers[c2].pc # "idle"
     /\ callers[c1].role = callers[c2].role
     /\ callers[c1].serial # 0
     /\ callers[c2].serial # 0)
      => ~(callers[c1].called /\ callers[c2].called)

(***************************************************************************)
(* Properties of the start of a debate (SpecStart).                        *)
(***************************************************************************)
\* The worker thread has not been started and no turn exists anywhere.
NothingGenerated ==
  /\ wpc = "unstarted"
  /\ message_count = 0
  /\ messages = <<>>
  /\ pending = NoItem
  /\ message_queue = <<>>
  /\ messages_generated = 0

\* C21: a debate started with fewer than 3 or more than 6 roles, or with a
\* role id that is not in the catalog, fails before the session starts: no
\* graph is returned, no worker thread is started, no turn is generated or put
\* on the queue.
C21_InvalidSelectionRejected ==
  (\/ Len(active_agents) < 3
   \/ Len(active_agents) > 6
   \/ \E i \in 1..Len(active_agents) : active_agents[i] \notin Roles)
    => /\ pc \in {"validate", "returned"}
       /\ node = "START"
       /\ NothingGenerated

C21_Witness ==
  /\ pc = "returned"
  /\ Len(active_agents) = 3
  /\ active_agents[3] = UnknownRole
  /\ max_rounds = 2

\* C22: a debate whose number of rounds is outside [2,8] is rejected before
\* the session starts: no worker thread is started and no turn is generated.
C22_InvalidRoundsRejected ==
  (max_rounds < 2 \/ max_rounds > 8) => NothingGenerated

C34_DisabledMakesNoRetrieval ==
  ~rag_enabled =>
    /\ fetch_calls = [r \in Roles |-> 0]
    /\ result_cache = EmptyIntDict
    /\ agent_disk_cache = EmptyDict
    /\ agent_paper_cache = EmptyDict
    /\ first_round_rag_completed = <<>>
    /\ round1_fetch = [r \in Roles |-> NoContext]
    /\ ~last_turn.fetched
    /\ (last_turn.order > 0 /\ deepseek) => last_turn.context = RagDisabled

\* A debate with the retrieval module present and retrieval switched off has
\* reached END with all its turns.
C34_Witness ==
  /\ ~rag_enabled
  /\ rag_module
  /\ node = "END"
  /\ Len(messages) = MaxP * MaxR
  /\ last_turn.context = RagDisabled

(***************************************************************************)
(* Properties of the retrieval module called directly (SpecModule).        *)
(***************************************************************************)
\* C32: after clear_agent_cache(role), get_agent_cached_context(role, topic)
\* returns nothing for every topic, and it returns for every other role what
\* it returned before.
C32_ClearRemovesRole ==
  [][(module_call'.seq # module_call.seq /\ module_call'.op = "clear"
        /\ module_call'.agent_role # "")
       => LET agent_role == module_call'.agent_role
          IN  /\ \A t \in Topics :
                   GetAgentCachedContext(agent_cache_dir', agent_role, t).context = None
              /\ \A other \in ModuleRoles \ {agent_role}, t \in Topics :
                   GetAgentCachedContext(agent_cache_dir', other, t).context
                     = GetAgentCachedContext(agent_cache_dir, other, t).context]_vars

\* C33: a call with force_refresh = false returns the cached context of the
\* role without a search exactly when the role cache has an entry for the role
\* and topic that has not expired and has max_sources reference entries; a
\* call with force_refresh = true always runs a search.
C33_CachedExactlyWhenCountMatches ==
  [][(module_call'.seq # module_call.seq /\ module_call'.op = "get"
        /\ module_call'.agent_role # "" /\ module_call'.max_sources > 0)
       => LET call == module_call'
              entry == GetAgentCachedContext(agent_cache_dir, call.agent_role,
                                             call.debate_topic).context
              served == ~call.searched /\ ~call.provider /\ call.context = entry
          IN  /\ call.searched \/ served
              /\ call.force_refresh => call.searched
              /\ ~call.force_refresh =>
                   (served <=> (entry # None /\ Entries(entry) = call.max_sources))]_vars

\* C35: the context a call returns has at most max_sources reference entries,
\* whatever number of results the search hands back, and a call with
\* max_sources <= 0 returns the 'no material' marker without running a search
\* or calling the provider and leaves the cache directories as they are.
C35_AtMostMaxSources ==
  /\ [](module_call.op = "get" =>
          /\ Entries(module_call.context) <= Max(module_call.max_sources, 0)
          /\ module_call.max_sources <= 0 =>
               /\ module_call.context = NoMaterial
               /\ ~module_call.searched
               /\ ~module_call.provider)
  /\ [][(module_call'.seq # module_call.seq /\ module_call'.op = "get"
           /\ module_call'.max_sources <= 0)
          => UNCHANGED <<agent_cache_dir, cache_dir>>]_vars

\* The provider has returned more results than max_sources and the context
\* of the call has max_sources reference entries.
C35_Witness ==
  /\ module_call.op = "get"
  /\ module_call.provider
  /\ module_call.max_sources = 1
  /\ module_call.returned = MaxResults
  /\ Entries(module_call.context) = 1

====
